---- MODULE Spec2Model ----
(***************************************************************************)
(* ItemPool of src/item.rs: a spin-locked vector of shared items with an   *)
(* atomic consumption cursor, called from several threads.                 *)
(*                                                                         *)
(* Each pool operation is split at its statements: the call, the           *)
(* acquisition of the pool lock, each statement executed under the lock,   *)
(* and the return, where the lock guard goes out of scope.                 *)
(***************************************************************************)
EXTENDS Integers, Sequences, FiniteSets

\* The threads that share one ItemPool (spec section 5): producers call
\* append, consumers call take, a control thread calls len, clear and reset.
Producers == {"p1", "p2"}
Consumers == {"c1", "c2"}
Controls == {"ctl"}
Threads == Producers \cup Consumers \cup Controls

NoThread == "none"

\* Bounds of the model.
MaxItems == 3
MaxBatch == 2
MaxFairItems == 2

VARIABLES
    pool,       \* ItemPool.pool: the Vec<Arc<Item>> behind the SpinLock
    taken,      \* ItemPool.taken: the AtomicUsize cursor
    owner,      \* the thread holding the SpinLock guard, or NoThread
    pc,         \* pc[t]: the statement thread t executes next
    items,      \* items[t]: the caller's vector handed to append
    len_l,      \* len_l[t]: the local `len` of take, the result of len()
    old_l,      \* old_l[t]: the local `taken` of take (the swapped-out cursor)
    ret,        \* ret[t]: the local `ret` of take
    nextId,     \* the number of items created so far (item identities)
    \* history of the execution, read only by the properties
    batch,      \* batch[t]: the vector as it was when append was called
    poolAtLock, \* poolAtLock[t]: the storage when t acquired the lock
    takenAtLock,\* takenAtLock[t]: the cursor when t acquired the lock
    sinceAtLock,\* sinceAtLock[t]: `since` when t acquired the lock
    arrivedAtLock, \* arrivedAtLock[t]: `arrived` when t acquired the lock
    claimedAtLock, \* claimedAtLock[t]: `claimed` when t acquired the lock
    delivered,  \* the results of the completed take calls, concatenated in
                \* the order of return; kept until clear or reset is called
    arrived,    \* the items appended since the last take, clear or reset
    since,      \* the last operation that wrote the cursor
    doneBatches,\* the batches of the completed appends since the last clear
    takers,     \* the threads that have called take; kept as delivered is
    overlap,    \* TRUE once a take was called while another was in flight;
                \* kept as delivered is
    claimed,    \* the cursor value the last reset overwrote, until the next
                \* take or clear
    ctl,        \* TRUE once clear or reset was called
    \* Item: one construction and the calls on the item it built
    item,       \* the Item that Item::new returned
    args,       \* the arguments Item::new was called with
    got,        \* the last call on the item and what it returned
    \* MatchedItem: two matched items and their comparison
    matched,    \* matched[s]: the MatchedItem on side s of the comparison
    mpc,        \* mpc[s]: how far the construction of matched[s] has come
    cmp_r       \* the results of comparing matched.lhs with matched.rhs

histVars == <<batch, poolAtLock, takenAtLock, sinceAtLock, arrivedAtLock, claimedAtLock,
              delivered, arrived, since, doneBatches, takers,
              overlap, ctl, claimed>>
poolVars == <<pool, taken, owner, pc, items, len_l, old_l, ret, nextId,
              batch, poolAtLock, takenAtLock, sinceAtLock, arrivedAtLock, claimedAtLock,
              delivered, arrived, since, doneBatches, takers,
              overlap, ctl, claimed>>
itemVars == <<item, args, got>>
rankVars == <<matched, mpc, cmp_r>>
vars == <<poolVars, itemVars, rankVars>>

----------------------------------------------------------------------------
\* Helpers

\* The items i+1 .. i+n, in order: a batch of n fresh items.
Fresh(i, n) == [k \in 1..n |-> i + k]

\* The outcome of an expression that panics.
Panic == "panic"

\* &s[a..b] of Rust (0-based, half-open): the elements a .. b-1, and a panic
\* when the range starts after its end or ends past the end of s.
Slice(s, a, b) ==
    IF a <= b /\ b <= Len(s) THEN SubSeq(s, a + 1, b) ELSE Panic

TakePcs == {"take_lock", "take_len", "take_swap", "take_alloc", "take_loop", "take_ret"}

\* The statements executed while holding the lock guard.
InsidePcs == {"len_read", "len_ret",
              "clear_clear", "clear_store", "clear_ret",
              "reset_store", "reset_ret",
              "append_push", "append_ret",
              "take_len", "take_swap", "take_alloc", "take_loop", "take_ret"}

----------------------------------------------------------------------------
\* Item: text derivation and matching ranges (struct Item, impl Item)
\*
\* A line is a sequence of units: the plain character "a", the delimiter
\* "," and Esc, one whole ANSI escape sequence.  Lengths count units.

MaxLen == 3
MaxField == 2

Esc == "ESC"
Delim == ","
Alphabet == {"a", Delim, Esc}
Lines == UNION {[1..n -> Alphabet] : n \in 0..MaxLen}

\* A list of field specifications: field numbers, counted from 1.
FieldSpecs == UNION {[1..n -> 1..MaxField] : n \in 0..2}

\* The (run, index) pairs items are numbered with.
Indices == {<<0, 0>>, <<1, 2>>}

\* The ANSI collaborator (crate::ansi).  parse_ansi returns the text with
\* the escape sequences removed, and for every escape sequence the offset in
\* the stripped text where it applies.
Strip(s) == SelectSeq(s, LAMBDA c : c # Esc)

AnsiStates(s) ==
    LET at == {k \in 1..Len(s) : s[k] = Esc}
        RECURSIVE Offsets(_)
        Offsets(k) ==
            IF k > Len(s) THEN <<>>
            ELSE IF k \in at
                   THEN <<Len(Strip(SubSeq(s, 1, k)))>> \o Offsets(k + 1)
                   ELSE Offsets(k + 1)
    IN Offsets(1)

parse_ansi(s) == [stripped |-> Strip(s), ansi_states |-> AnsiStates(s)]

\* AnsiString::new_string keeps the string as it is given, unparsed.
AnsiString_new_string(s) == [stripped |-> s, ansi_states |-> <<>>]

AnsiString_new_empty == [stripped |-> <<>>, ansi_states |-> <<>>]

get_stripped(a) == a.stripped

into_inner(a) == a.stripped

\* The field collaborator (crate::field), with "," as the delimiter.  The
\* fields of a text start at offset 0 and after every delimiter; a field
\* runs to the start of the next one, or to the end of the text.
FieldStarts(text) == {0} \cup {k \in 1..Len(text) : text[k] = Delim}

NthStart(text, i) ==
    CHOOSE x \in FieldStarts(text) :
        Cardinality({y \in FieldStarts(text) : y < x}) = i - 1

\* The byte range of field i of the text; i is at most the number of fields.
FieldRange(text, i) ==
    <<NthStart(text, i),
      IF i < Cardinality(FieldStarts(text)) THEN NthStart(text, i + 1)
                                             ELSE Len(text)>>

RECURSIVE parse_transform_fields(_, _)
\* The selected fields of the text, concatenated; a field the text does not
\* have selects nothing.
parse_transform_fields(text, fields) ==
    IF fields = <<>> THEN <<>>
    ELSE (IF Head(fields) <= Cardinality(FieldStarts(text))
            THEN Slice(text, FieldRange(text, Head(fields))[1],
                             FieldRange(text, Head(fields))[2])
            ELSE <<>>)
         \o parse_transform_fields(text, Tail(fields))

RECURSIVE parse_matching_fields(_, _)
\* The byte ranges of the selected fields of the text; a field the text
\* does not have gives no range.
parse_matching_fields(text, fields) ==
    IF fields = <<>> THEN <<>>
    ELSE (IF Head(fields) <= Cardinality(FieldStarts(text))
            THEN <<FieldRange(text, Head(fields))>>
            ELSE <<>>)
         \o parse_matching_fields(text, Tail(fields))

\* Variant of get_text: the flags are combined with "or" and not "and", so
\* the original line is returned whenever one of them is off.
get_text_Or(self) ==
    IF ~self.using_transform_fields \/ ~self.ansi_enabled
      THEN self.orig_text
      ELSE get_stripped(self.text)

\* pub fn get_text(&self) -> &str
get_text(self) ==
    IF ~self.using_transform_fields /\ ~self.ansi_enabled
      THEN self.orig_text
      ELSE get_stripped(self.text)

\* Option<&AnsiString>
None == [some |-> FALSE]
Some(v) == [some |-> TRUE, val |-> v]

\* pub fn get_text_struct(&self) -> Option<&AnsiString>
get_text_struct(self) ==
    IF ~self.using_transform_fields /\ ~self.ansi_enabled
      THEN None
      ELSE Some(self.text)

\* Variant of get_output_text: with transform and ANSI active the output is
\* the item's own derived text (the transformed text) and not a new parse
\* of the original line.
get_output_text_Derived(self) ==
    IF self.using_transform_fields /\ self.ansi_enabled
      THEN get_stripped(self.text)
      ELSE IF ~self.using_transform_fields /\ self.ansi_enabled
             THEN get_stripped(self.text)
             ELSE self.orig_text

\* Variant of get_output_text: with ANSI alone the output is the original
\* line as it was read, escape sequences included.
get_output_text_Raw(self) ==
    IF self.using_transform_fields /\ self.ansi_enabled
      THEN into_inner(parse_ansi(self.orig_text))
      ELSE IF ~self.using_transform_fields /\ self.ansi_enabled
             THEN self.orig_text
             ELSE self.orig_text

\* pub fn get_output_text(&'a self) -> Cow<'a, str>
get_output_text(self) ==
    IF self.using_transform_fields /\ self.ansi_enabled
      THEN into_inner(parse_ansi(self.orig_text))
      ELSE IF ~self.using_transform_fields /\ self.ansi_enabled
             THEN get_stripped(self.text)
             ELSE self.orig_text

get_index(self) == self.index[2]

get_full_index(self) == self.index

get_matching_ranges(self) == self.matching_ranges

\* let text = if using_transform_fields && ansi_enabled { ... } ...
Item_text(orig_text, ansi_enabled, trans_fields) ==
    LET using_transform_fields == trans_fields # <<>>
    IN IF using_transform_fields /\ ansi_enabled
         THEN parse_ansi(parse_transform_fields(orig_text, trans_fields))
         ELSE IF using_transform_fields
                THEN AnsiString_new_string(parse_transform_fields(orig_text, trans_fields))
                ELSE IF ansi_enabled
                       THEN parse_ansi(orig_text)
                       ELSE AnsiString_new_empty

\* Variant of Item_matching_ranges: the default range spans the original
\* line and not the text get_text returns.
Item_matching_ranges_OrigLen(new_item, matching_fields) ==
    IF matching_fields # <<>>
      THEN parse_matching_fields(get_text(new_item), matching_fields)
      ELSE << <<0, Len(new_item.orig_text)>> >>

\* Variant of Item_matching_ranges: the matching fields are resolved
\* against the original line and not the text get_text returns.
Item_matching_ranges_OnOrig(new_item, matching_fields) ==
    IF matching_fields # <<>>
      THEN parse_matching_fields(new_item.orig_text, matching_fields)
      ELSE << <<0, Len(get_text(new_item))>> >>

\* let matching_ranges = if !matching_fields.is_empty() { ... } else { ... };
Item_matching_ranges(new_item, matching_fields) ==
    IF matching_fields # <<>>
      THEN parse_matching_fields(get_text(new_item), matching_fields)
      ELSE << <<0, Len(get_text(new_item))>> >>

\* pub fn new(orig_text, ansi_enabled, trans_fields, matching_fields,
\*            delimiter, index) -> Self
Item_new(orig_text, ansi_enabled, trans_fields, matching_fields, index) ==
    LET new_item == [index |-> index,
                     orig_text |-> orig_text,
                     text |-> Item_text(orig_text, ansi_enabled, trans_fields),
                     using_transform_fields |-> trans_fields # <<>>,
                     matching_ranges |-> <<>>,
                     ansi_enabled |-> ansi_enabled]
    IN [new_item EXCEPT !.matching_ranges = Item_matching_ranges(new_item, matching_fields)]

\* Before Item::new is called there is no item: the variables hold an
\* item without text and the arguments of no call.
NoItem == [index |-> <<0, 0>>, orig_text |-> <<>>, text |-> AnsiString_new_empty,
           using_transform_fields |-> FALSE, matching_ranges |-> <<>>,
           ansi_enabled |-> FALSE]
NoArgs == [orig_text |-> <<>>, ansi_enabled |-> FALSE, trans_fields |-> <<>>,
           matching_fields |-> <<>>, index |-> <<0, 0>>]
NoCall == [call |-> "none", val |-> <<>>]

----------------------------------------------------------------------------
\* MatchedItem and Rank (type Rank, enum MatchedRange, struct MatchedItem)

MaxRank == 1

\* The values a rank slot takes in the model: i64 values around zero.
RankVals == (0 - 1)..MaxRank

\* pub type Rank = [i64; 4]; // score, index, start, end
Ranks == [1..4 -> RankVals]

\* std::cmp::Ordering
Less == "Less"
Equal == "Equal"
Greater == "Greater"

\* i64::cmp
i64_cmp(x, y) == IF x < y THEN Less ELSE IF x = y THEN Equal ELSE Greater

\* <[i64; 4] as Ord>::cmp: the slots are compared in order and the first
\* pair that is not Equal is the result.
Rank_cmp(r, s) ==
    LET RECURSIVE From(_)
        From(k) ==
            IF k > 4 THEN Equal
            ELSE IF i64_cmp(r[k], s[k]) # Equal THEN i64_cmp(r[k], s[k])
            ELSE From(k + 1)
    IN From(1)

\* <[i64; 4] as PartialEq>::eq
Rank_eq(r, s) == \A k \in 1..4 : r[k] = s[k]

\* enum MatchedRange
ByteRange(start, end) == [kind |-> "ByteRange", start |-> start, end |-> end]
Chars(v) == [kind |-> "Chars", chars |-> v]

\* The items the matched items refer to.
ItemA == Item_new(<<"a">>, FALSE, <<>>, <<>>, <<0, 0>>)
ItemB == Item_new(<<"a", Delim>>, FALSE, <<>>, <<1>>, <<1, 2>>)
SomeItems == {ItemA, ItemB}

\* The range a match in the item is reported with: the bytes of the whole
\* text of ItemA, the first character of every other item.
RangeOf(it) == IF it = ItemA THEN ByteRange(0, Len(get_text(it))) ELSE Chars(<<0>>)

\* pub fn builder(item: Arc<Item>) -> Self
MatchedItem_builder(it) ==
    [item |-> it, rank |-> <<0, 0, 0, 0>>, matched_range |-> None]

\* pub fn matched_range(mut self, range: MatchedRange) -> Self
MatchedItem_matched_range(self, range) ==
    [self EXCEPT !.matched_range = Some(range)]

\* pub fn rank(mut self, rank: Rank) -> Self
MatchedItem_rank(self, rank) == [self EXCEPT !.rank = rank]

\* pub fn build(self) -> Self
MatchedItem_build(self) == self

\* Variant of MatchedItem_cmp: only the score decides.
MatchedItem_cmp_Score(self, other) == i64_cmp(self.rank[1], other.rank[1])

\* Variant of MatchedItem_cmp: the slots are compared from the last to the
\* first.
MatchedItem_cmp_Back(self, other) ==
    Rank_cmp([k \in 1..4 |-> self.rank[5 - k]], [k \in 1..4 |-> other.rank[5 - k]])

\* impl Ord for MatchedItem: fn cmp(&self, other: &MatchedItem) -> Ordering
MatchedItem_cmp(self, other) == Rank_cmp(self.rank, other.rank)

\* impl PartialOrd for MatchedItem: fn partial_cmp
MatchedItem_partial_cmp(self, other) == Some(MatchedItem_cmp(self, other))

\* Variant of MatchedItem_eq: equality of every field, as a derived
\* PartialEq would compare.
MatchedItem_eq_Derived(self, other) ==
    /\ self.item = other.item
    /\ Rank_eq(self.rank, other.rank)
    /\ self.matched_range = other.matched_range

\* impl PartialEq for MatchedItem: fn eq(&self, other: &MatchedItem) -> bool
MatchedItem_eq(self, other) == Rank_eq(self.rank, other.rank)

\* The two matched items of a comparison.
Sides == {"lhs", "rhs"}

----------------------------------------------------------------------------
\* ItemPool::new: empty storage, cursor 0, lock free; no thread is in a call.
\* No Item and no MatchedItem has been built yet.
Init ==
    /\ pool = <<>>
    /\ taken = 0
    /\ owner = NoThread
    /\ pc = [t \in Threads |-> "idle"]
    /\ items = [t \in Threads |-> <<>>]
    /\ len_l = [t \in Threads |-> 0]
    /\ old_l = [t \in Threads |-> 0]
    /\ ret = [t \in Threads |-> <<>>]
    /\ nextId = 0
    /\ batch = [t \in Threads |-> <<>>]
    /\ poolAtLock = [t \in Threads |-> <<>>]
    /\ takenAtLock = [t \in Threads |-> 0]
    /\ sinceAtLock = [t \in Threads |-> "new"]
    /\ arrivedAtLock = [t \in Threads |-> <<>>]
    /\ claimedAtLock = [t \in Threads |-> 0]
    /\ delivered = <<>>
    /\ arrived = <<>>
    /\ since = "new"
    /\ doneBatches = {}
    /\ takers = {}
    /\ overlap = FALSE
    /\ claimed = 0
    /\ ctl = FALSE
    /\ item = NoItem
    /\ args = NoArgs
    /\ got = NoCall
    /\ matched = [s \in Sides |-> MatchedItem_builder(NoItem)]
    /\ mpc = [s \in Sides |-> "none"]
    /\ cmp_r = NoCall

----------------------------------------------------------------------------
\* The SpinLock collaborator (crate::spinlock): lock() returns a guard once
\* no other guard exists; dropping the guard frees the lock.

SpinLock_lock(t) ==
    /\ owner = NoThread
    /\ owner' = t
    /\ poolAtLock' = [poolAtLock EXCEPT ![t] = pool]
    /\ takenAtLock' = [takenAtLock EXCEPT ![t] = taken]
    /\ sinceAtLock' = [sinceAtLock EXCEPT ![t] = since]
    /\ arrivedAtLock' = [arrivedAtLock EXCEPT ![t] = arrived]
    /\ claimedAtLock' = [claimedAtLock EXCEPT ![t] = claimed]

SpinLockGuard_drop(t) ==
    /\ owner' = IF owner = t THEN NoThread ELSE owner
    /\ poolAtLock' = [poolAtLock EXCEPT ![t] = <<>>]
    /\ takenAtLock' = [takenAtLock EXCEPT ![t] = 0]
    /\ sinceAtLock' = [sinceAtLock EXCEPT ![t] = "new"]
    /\ arrivedAtLock' = [arrivedAtLock EXCEPT ![t] = <<>>]
    /\ claimedAtLock' = [claimedAtLock EXCEPT ![t] = 0]

lockHist == <<poolAtLock, takenAtLock, sinceAtLock, arrivedAtLock, claimedAtLock>>

Goto(t, l) == pc' = [pc EXCEPT ![t] = l]

----------------------------------------------------------------------------
\* Calls.  A thread that is in no call enters one; the body then runs
\* statement by statement.

\* append(&self, items: &mut Vec<Arc<Item>>) is entered with a vector of n
\* items that no other vector holds.
Call_append(t, n) ==
    /\ pc[t] = "idle"
    /\ nextId + n <= MaxItems
    /\ items' = [items EXCEPT ![t] = Fresh(nextId, n)]
    /\ batch' = [batch EXCEPT ![t] = Fresh(nextId, n)]
    /\ nextId' = nextId + n
    /\ Goto(t, "append_lock")
    /\ UNCHANGED <<pool, taken, owner, len_l, old_l, ret, lockHist, delivered,
                   arrived, since, doneBatches, takers, overlap,
                   ctl, claimed>>
    /\ UNCHANGED <<itemVars, rankVars>>

Call_take(t) ==
    /\ pc[t] = "idle"
    /\ takers' = IF ~ctl THEN takers \cup {t} ELSE takers
    /\ overlap' = IF ~ctl
                    THEN (overlap \/ \E u \in Threads \ {t} : pc[u] \in TakePcs)
                    ELSE overlap
    /\ Goto(t, "take_lock")
    /\ UNCHANGED <<pool, taken, owner, items, len_l, old_l, ret, nextId, batch,
                   lockHist, delivered, arrived, since,
                   doneBatches, ctl, claimed>>
    /\ UNCHANGED <<itemVars, rankVars>>

Call_len(t) ==
    /\ pc[t] = "idle"
    /\ Goto(t, "len_lock")
    /\ UNCHANGED <<pool, taken, owner, items, len_l, old_l, ret, nextId,
                   histVars>>
    /\ UNCHANGED <<itemVars, rankVars>>

Call_clear(t) ==
    /\ pc[t] = "idle"
    /\ ctl' = TRUE
    /\ delivered' = <<>>
    /\ takers' = {}
    /\ overlap' = FALSE
    /\ Goto(t, "clear_lock")
    /\ UNCHANGED <<pool, taken, owner, items, len_l, old_l, ret, nextId, batch,
                   lockHist, arrived, since, doneBatches, claimed>>
    /\ UNCHANGED <<itemVars, rankVars>>

Call_reset(t) ==
    /\ pc[t] = "idle"
    /\ ctl' = TRUE
    /\ delivered' = <<>>
    /\ takers' = {}
    /\ overlap' = FALSE
    /\ Goto(t, "reset_lock")
    /\ UNCHANGED <<pool, taken, owner, items, len_l, old_l, ret, nextId, batch,
                   lockHist, arrived, since, doneBatches, claimed>>
    /\ UNCHANGED <<itemVars, rankVars>>

----------------------------------------------------------------------------
\* len

\* let items = self.pool.lock();
Len_lock(t) ==
    /\ pc[t] = "len_lock"
    /\ SpinLock_lock(t)
    /\ Goto(t, "len_read")
    /\ UNCHANGED <<pool, taken, items, len_l, old_l, ret, nextId, batch,
                   delivered, arrived, since, doneBatches, takers,
                   overlap, ctl, claimed>>
    /\ UNCHANGED <<itemVars, rankVars>>

\* items.len()
Len_read(t) ==
    /\ pc[t] = "len_read"
    /\ len_l' = [len_l EXCEPT ![t] = Len(pool)]
    /\ Goto(t, "len_ret")
    /\ UNCHANGED <<pool, taken, owner, items, old_l, ret, nextId, histVars>>
    /\ UNCHANGED <<itemVars, rankVars>>

\* the guard goes out of scope and the length is returned
Len_ret(t) ==
    /\ pc[t] = "len_ret"
    /\ SpinLockGuard_drop(t)
    /\ len_l' = [len_l EXCEPT ![t] = 0]
    /\ Goto(t, "idle")
    /\ UNCHANGED <<pool, taken, items, old_l, ret, nextId, batch, delivered,
                   arrived, since, doneBatches, takers, overlap,
                   ctl, claimed>>
    /\ UNCHANGED <<itemVars, rankVars>>

----------------------------------------------------------------------------
\* clear

\* let mut items = self.pool.lock();
Clear_lock(t) ==
    /\ pc[t] = "clear_lock"
    /\ SpinLock_lock(t)
    /\ Goto(t, "clear_clear")
    /\ UNCHANGED <<pool, taken, items, len_l, old_l, ret, nextId, batch,
                   delivered, arrived, since, doneBatches, takers,
                   overlap, ctl, claimed>>
    /\ UNCHANGED <<itemVars, rankVars>>

\* Variant of Clear_clear: the storage is left as it was.
Clear_clear_Noop(t) ==
    /\ pc[t] = "clear_clear"
    /\ arrived' = <<>>
    /\ doneBatches' = {}
    /\ Goto(t, "clear_store")
    /\ UNCHANGED <<pool, taken, owner, items, len_l, old_l, ret, nextId, batch,
                   lockHist, delivered, since, takers, overlap,
                   ctl, claimed>>
    /\ UNCHANGED <<itemVars, rankVars>>

\* items.clear();
Clear_clear(t) ==
    /\ pc[t] = "clear_clear"
    /\ pool' = <<>>
    /\ arrived' = <<>>
    /\ doneBatches' = {}
    /\ Goto(t, "clear_store")
    /\ UNCHANGED <<taken, owner, items, len_l, old_l, ret, nextId, batch,
                   lockHist, delivered, since, takers, overlap,
                   ctl, claimed>>
    /\ UNCHANGED <<itemVars, rankVars>>

\* Variant of Clear_store: the cursor is left as it was.
Clear_store_Skip(t) ==
    /\ pc[t] = "clear_store"
    /\ since' = "clear"
    /\ claimed' = 0
    /\ Goto(t, "clear_ret")
    /\ UNCHANGED <<pool, taken, owner, items, len_l, old_l, ret, nextId, batch,
                   lockHist, delivered, arrived, doneBatches,
                   takers, overlap, ctl>>
    /\ UNCHANGED <<itemVars, rankVars>>

\* self.taken.store(0, AtomicOrdering::SeqCst);
Clear_store(t) ==
    /\ pc[t] = "clear_store"
    /\ taken' = 0
    /\ since' = "clear"
    /\ claimed' = 0
    /\ Goto(t, "clear_ret")
    /\ UNCHANGED <<pool, owner, items, len_l, old_l, ret, nextId, batch,
                   lockHist, delivered, arrived, doneBatches,
                   takers, overlap, ctl>>
    /\ UNCHANGED <<itemVars, rankVars>>

\* the guard goes out of scope
Clear_ret(t) ==
    /\ pc[t] = "clear_ret"
    /\ SpinLockGuard_drop(t)
    /\ Goto(t, "idle")
    /\ UNCHANGED <<pool, taken, items, len_l, old_l, ret, nextId, batch,
                   delivered, arrived, since, doneBatches, takers,
                   overlap, ctl, claimed>>
    /\ UNCHANGED <<itemVars, rankVars>>

----------------------------------------------------------------------------
\* reset

\* Variant of Reset_lock: reset goes on without acquiring the lock.
Reset_lock_Skip(t) ==
    /\ pc[t] = "reset_lock"
    /\ Goto(t, "reset_store")
    /\ UNCHANGED <<pool, taken, owner, items, len_l, old_l, ret, nextId,
                   histVars>>
    /\ UNCHANGED <<itemVars, rankVars>>

\* let items = self.pool.lock();
Reset_lock(t) ==
    /\ pc[t] = "reset_lock"
    /\ SpinLock_lock(t)
    /\ Goto(t, "reset_store")
    /\ UNCHANGED <<pool, taken, items, len_l, old_l, ret, nextId, batch,
                   delivered, arrived, since, doneBatches, takers,
                   overlap, ctl, claimed>>
    /\ UNCHANGED <<itemVars, rankVars>>

\* Variant of Reset_store: reset empties the storage as clear does.
Reset_store_Clear(t) ==
    /\ pc[t] = "reset_store"
    /\ pool' = <<>>
    /\ taken' = 0
    /\ since' = "reset"
    /\ arrived' = <<>>
    /\ claimed' = taken
    /\ Goto(t, "reset_ret")
    /\ UNCHANGED <<owner, items, len_l, old_l, ret, nextId, batch,
                   lockHist, delivered, doneBatches, takers,
                   overlap, ctl>>
    /\ UNCHANGED <<itemVars, rankVars>>

\* self.taken.store(0, AtomicOrdering::SeqCst);
Reset_store(t) ==
    /\ pc[t] = "reset_store"
    /\ taken' = 0
    /\ since' = "reset"
    /\ arrived' = <<>>
    /\ claimed' = taken
    /\ Goto(t, "reset_ret")
    /\ UNCHANGED <<pool, owner, items, len_l, old_l, ret, nextId, batch,
                   lockHist, delivered, doneBatches, takers,
                   overlap, ctl>>
    /\ UNCHANGED <<itemVars, rankVars>>

\* Variant of Reset_ret: the guard is leaked (mem::forget) and the lock stays
\* taken after the return.
Reset_ret_Leak(t) ==
    /\ pc[t] = "reset_ret"
    /\ Goto(t, "idle")
    /\ UNCHANGED <<pool, taken, owner, items, len_l, old_l, ret, nextId,
                   histVars>>
    /\ UNCHANGED <<itemVars, rankVars>>

\* the guard goes out of scope
Reset_ret(t) ==
    /\ pc[t] = "reset_ret"
    /\ SpinLockGuard_drop(t)
    /\ Goto(t, "idle")
    /\ UNCHANGED <<pool, taken, items, len_l, old_l, ret, nextId, batch,
                   delivered, arrived, since, doneBatches, takers,
                   overlap, ctl, claimed>>
    /\ UNCHANGED <<itemVars, rankVars>>

----------------------------------------------------------------------------
\* append

\* let mut pool = self.pool.lock();
Append_lock(t) ==
    /\ pc[t] = "append_lock"
    /\ SpinLock_lock(t)
    /\ Goto(t, "append_push")
    /\ UNCHANGED <<pool, taken, items, len_l, old_l, ret, nextId, batch,
                   delivered, arrived, since, doneBatches, takers,
                   overlap, ctl, claimed>>
    /\ UNCHANGED <<itemVars, rankVars>>

\* Variant of Append_push: the elements are copied (extend_from_slice) and
\* the caller's vector keeps them.
Append_push_Clone(t) ==
    /\ pc[t] = "append_push"
    /\ pool' = pool \o items[t]
    /\ arrived' = arrived \o items[t]
    /\ Goto(t, "append_ret")
    /\ UNCHANGED <<taken, owner, items, len_l, old_l, ret, nextId, batch,
                   lockHist, delivered, since, doneBatches, takers, overlap,
                   ctl, claimed>>
    /\ UNCHANGED <<itemVars, rankVars>>

\* The sequence s reversed.
Reverse(s) == [k \in 1..Len(s) |-> s[Len(s) + 1 - k]]

\* Variant of Append_push: the elements are moved last first (popped off the
\* caller's vector).
Append_push_Rev(t) ==
    /\ pc[t] = "append_push"
    /\ pool' = pool \o Reverse(items[t])
    /\ items' = [items EXCEPT ![t] = <<>>]
    /\ arrived' = arrived \o Reverse(items[t])
    /\ Goto(t, "append_ret")
    /\ UNCHANGED <<taken, owner, len_l, old_l, ret, nextId, batch, lockHist,
                   delivered, since, doneBatches, takers, overlap,
                   ctl, claimed>>
    /\ UNCHANGED <<itemVars, rankVars>>

\* Variant of Append_push: the batch is inserted in front of the stored items.
Append_push_Front(t) ==
    /\ pc[t] = "append_push"
    /\ pool' = items[t] \o pool
    /\ items' = [items EXCEPT ![t] = <<>>]
    /\ arrived' = arrived \o items[t]
    /\ Goto(t, "append_ret")
    /\ UNCHANGED <<taken, owner, len_l, old_l, ret, nextId, batch, lockHist,
                   delivered, since, doneBatches, takers, overlap,
                   ctl, claimed>>
    /\ UNCHANGED <<itemVars, rankVars>>

\* pool.append(items);  Vec::append moves every element of `items` onto the
\* end of `pool`, in order, and leaves `items` empty.
Append_push(t) ==
    /\ pc[t] = "append_push"
    /\ pool' = pool \o items[t]
    /\ items' = [items EXCEPT ![t] = <<>>]
    /\ arrived' = arrived \o items[t]
    /\ Goto(t, "append_ret")
    /\ UNCHANGED <<taken, owner, len_l, old_l, ret, nextId, batch, lockHist,
                   delivered, since, doneBatches, takers, overlap,
                   ctl, claimed>>
    /\ UNCHANGED <<itemVars, rankVars>>

\* the guard goes out of scope
Append_ret(t) ==
    /\ pc[t] = "append_ret"
    /\ SpinLockGuard_drop(t)
    /\ doneBatches' = doneBatches \cup {batch[t]}
    /\ batch' = [batch EXCEPT ![t] = <<>>]
    /\ Goto(t, "idle")
    /\ UNCHANGED <<pool, taken, items, len_l, old_l, ret, nextId, delivered,
                   arrived, since, takers, overlap, ctl, claimed>>
    /\ UNCHANGED <<itemVars, rankVars>>

----------------------------------------------------------------------------
\* take

\* Variant of Take_lock: take goes on without acquiring the lock.
Take_lock_NoLock(t) ==
    /\ pc[t] = "take_lock"
    /\ Goto(t, "take_len")
    /\ UNCHANGED <<pool, taken, owner, items, len_l, old_l, ret, nextId,
                   histVars>>
    /\ UNCHANGED <<itemVars, rankVars>>

\* let pool = self.pool.lock();
Take_lock(t) ==
    /\ pc[t] = "take_lock"
    /\ SpinLock_lock(t)
    /\ Goto(t, "take_len")
    /\ UNCHANGED <<pool, taken, items, len_l, old_l, ret, nextId, batch,
                   delivered, arrived, since, doneBatches, takers,
                   overlap, ctl, claimed>>
    /\ UNCHANGED <<itemVars, rankVars>>

\* let len = pool.len();
Take_len(t) ==
    /\ pc[t] = "take_len"
    /\ len_l' = [len_l EXCEPT ![t] = Len(pool)]
    /\ Goto(t, "take_swap")
    /\ UNCHANGED <<pool, taken, owner, items, old_l, ret, nextId, histVars>>
    /\ UNCHANGED <<itemVars, rankVars>>

\* Variant of Take_swap: the cursor is read (load) and not written.
Take_swap_Load(t) ==
    /\ pc[t] = "take_swap"
    /\ old_l' = [old_l EXCEPT ![t] = taken]
    /\ since' = "take"
    /\ arrived' = <<>>
    /\ claimed' = 0
    /\ Goto(t, "take_alloc")
    /\ UNCHANGED <<pool, taken, owner, items, len_l, ret, nextId, batch,
                   lockHist, delivered, doneBatches, takers, overlap, ctl>>
    /\ UNCHANGED <<itemVars, rankVars>>

\* Variant of Take_swap: the length is added to the cursor (fetch_add).
Take_swap_Add(t) ==
    /\ pc[t] = "take_swap"
    /\ old_l' = [old_l EXCEPT ![t] = taken]
    /\ taken' = taken + len_l[t]
    /\ since' = "take"
    /\ arrived' = <<>>
    /\ claimed' = 0
    /\ Goto(t, "take_alloc")
    /\ UNCHANGED <<pool, owner, items, len_l, ret, nextId, batch, lockHist,
                   delivered, doneBatches, takers, overlap, ctl>>
    /\ UNCHANGED <<itemVars, rankVars>>

\* let taken = self.taken.swap(len, AtomicOrdering::SeqCst);
Take_swap(t) ==
    /\ pc[t] = "take_swap"
    /\ old_l' = [old_l EXCEPT ![t] = taken]
    /\ taken' = len_l[t]
    /\ since' = "take"
    /\ arrived' = <<>>
    /\ claimed' = 0
    /\ Goto(t, "take_alloc")
    /\ UNCHANGED <<pool, owner, items, len_l, ret, nextId, batch, lockHist,
                   delivered, doneBatches, takers, overlap, ctl>>
    /\ UNCHANGED <<itemVars, rankVars>>

\* A panic unwinds the call: the guard is dropped and nothing is returned.
Take_panic(t) ==
    /\ SpinLockGuard_drop(t)
    /\ len_l' = [len_l EXCEPT ![t] = 0]
    /\ old_l' = [old_l EXCEPT ![t] = 0]
    /\ ret' = [ret EXCEPT ![t] = <<>>]
    /\ Goto(t, "panicked")
    /\ UNCHANGED <<delivered>>

\* let mut ret = Vec::with_capacity(len-taken);  and the bounds check of
\* &pool[taken..len].  len - taken overflows when taken > len: a panic in a
\* debug build, and in a release build a wrapped capacity and then the
\* slice's own panic (taken > len, or len past the end of the vector).
Take_alloc(t) ==
    /\ pc[t] = "take_alloc"
    /\ IF old_l[t] > len_l[t] \/ len_l[t] > Len(pool)
         THEN Take_panic(t)
         ELSE /\ ret' = [ret EXCEPT ![t] = <<>>]
              /\ Goto(t, IF old_l[t] = len_l[t] THEN "take_ret" ELSE "take_loop")
              /\ UNCHANGED <<owner, len_l, old_l, lockHist, delivered>>
    /\ UNCHANGED <<pool, taken, items, nextId, batch, arrived, since,
                   doneBatches, takers, overlap, ctl, claimed>>
    /\ UNCHANGED <<itemVars, rankVars>>

\* Variant of Take_loop: the slice starts at 0 (&pool[..len - taken]) and
\* not at the old cursor.
Take_loop_FromStart(t) ==
    /\ pc[t] = "take_loop"
    /\ IF Len(ret[t]) + 1 > Len(pool)
         THEN Take_panic(t)
         ELSE /\ ret' = [ret EXCEPT ![t] = Append(@, pool[Len(ret[t]) + 1])]
              /\ Goto(t, IF old_l[t] + Len(ret[t]) + 1 = len_l[t]
                           THEN "take_ret" ELSE "take_loop")
              /\ UNCHANGED <<owner, len_l, old_l, lockHist, delivered>>
    /\ UNCHANGED <<pool, taken, items, nextId, batch, arrived, since,
                   doneBatches, takers, overlap, ctl, claimed>>
    /\ UNCHANGED <<itemVars, rankVars>>

\* for item in &pool[taken..len] { ret.push(item.clone()) }: one iteration.
\* The next element of the slice is the one at taken + ret.len().
Take_loop(t) ==
    /\ pc[t] = "take_loop"
    /\ IF old_l[t] + Len(ret[t]) + 1 > Len(pool)
         THEN Take_panic(t)
         ELSE /\ ret' = [ret EXCEPT ![t] = Append(@, pool[old_l[t] + Len(ret[t]) + 1])]
              /\ Goto(t, IF old_l[t] + Len(ret[t]) + 1 = len_l[t]
                           THEN "take_ret" ELSE "take_loop")
              /\ UNCHANGED <<owner, len_l, old_l, lockHist, delivered>>
    /\ UNCHANGED <<pool, taken, items, nextId, batch, arrived, since,
                   doneBatches, takers, overlap, ctl, claimed>>
    /\ UNCHANGED <<itemVars, rankVars>>

\* ret  (the guard goes out of scope and the vector is returned)
Take_ret(t) ==
    /\ pc[t] = "take_ret"
    /\ SpinLockGuard_drop(t)
    /\ delivered' = IF ~ctl THEN delivered \o ret[t] ELSE delivered
    /\ len_l' = [len_l EXCEPT ![t] = 0]
    /\ old_l' = [old_l EXCEPT ![t] = 0]
    /\ ret' = [ret EXCEPT ![t] = <<>>]
    /\ Goto(t, "idle")
    /\ UNCHANGED <<pool, taken, items, nextId, batch, arrived, since,
                   doneBatches, takers, overlap, ctl, claimed>>
    /\ UNCHANGED <<itemVars, rankVars>>

----------------------------------------------------------------------------
Next ==
    \/ \E t \in Producers :
        \/ \E n \in 0..MaxBatch : Call_append(t, n)
        \/ Append_lock(t) \/ Append_push(t) \/ Append_ret(t)
    \/ \E t \in Consumers :
        \/ Call_take(t)
        \/ Take_lock(t) \/ Take_len(t) \/ Take_swap(t) \/ Take_alloc(t)
        \/ Take_loop(t) \/ Take_ret(t)
    \/ \E t \in Controls :
        \/ Call_len(t) \/ Call_clear(t) \/ Call_reset(t)
        \/ Len_lock(t) \/ Len_read(t) \/ Len_ret(t)
        \/ Clear_lock(t) \/ Clear_clear(t) \/ Clear_store(t) \/ Clear_ret(t)
        \/ Reset_lock(t) \/ Reset_store(t) \/ Reset_ret(t)

Spec == Init /\ [][Next]_vars

\* The step in which thread t acquires the pool lock.
Acquire(t) ==
    Len_lock(t) \/ Clear_lock(t) \/ Reset_lock(t) \/ Append_lock(t) \/ Take_lock(t)

\* The steps of thread t between the acquisition of the lock and the return.
Body(t) ==
    \/ Len_read(t) \/ Len_ret(t)
    \/ Clear_clear(t) \/ Clear_store(t) \/ Clear_ret(t)
    \/ Reset_store(t) \/ Reset_ret(t)
    \/ Append_push(t) \/ Append_ret(t)
    \/ Take_len(t) \/ Take_swap(t) \/ Take_alloc(t) \/ Take_loop(t) \/ Take_ret(t)

\* The pool's steps with at most MaxFairItems items ever handed to append,
\* all of them by the first producer (the second appends empty batches):
\* the runs of Next the fairness conditions are checked on.  Only the calls
\* of append are restricted; every thread still contends for the lock.
FairNext ==
    \/ \E t \in Producers :
        \/ \E n \in 0..MaxBatch :
            (t = "p1" \/ n = 0) /\ nextId + n <= MaxFairItems /\ Call_append(t, n)
        \/ Append_lock(t) \/ Append_push(t) \/ Append_ret(t)
    \/ \E t \in Consumers :
        \/ Call_take(t)
        \/ Take_lock(t) \/ Take_len(t) \/ Take_swap(t) \/ Take_alloc(t)
        \/ Take_loop(t) \/ Take_ret(t)
    \/ \E t \in Controls :
        \/ Call_len(t) \/ Call_clear(t) \/ Call_reset(t)
        \/ Len_lock(t) \/ Len_read(t) \/ Len_ret(t)
        \/ Clear_lock(t) \/ Clear_clear(t) \/ Clear_store(t) \/ Clear_ret(t)
        \/ Reset_lock(t) \/ Reset_store(t) \/ Reset_ret(t)

\* Fair scheduling: every thread keeps running.  A thread that holds the
\* lock executes its next statement, and a thread spinning on the lock gets
\* it if the lock stays free (weak fairness of each).  The spin lock keeps
\* no queue, so a spinning thread is not promised the lock when other
\* threads keep taking it.  No thread is obliged to call the pool.
FairSpec ==
    /\ Init
    /\ [][FairNext]_vars
    /\ \A t \in Threads : WF_vars(Body(t)) /\ WF_vars(Acquire(t))

----------------------------------------------------------------------------
\* Item: one item is built and then read through its accessors.

\* Item::new(orig_text, ansi_enabled, trans_fields, matching_fields,
\*           delimiter, index)
Call_Item_new(orig_text, ansi_enabled, trans_fields, matching_fields, index) ==
    /\ got.call = "none"
    /\ item' = Item_new(orig_text, ansi_enabled, trans_fields, matching_fields, index)
    /\ args' = [orig_text |-> orig_text, ansi_enabled |-> ansi_enabled,
                trans_fields |-> trans_fields, matching_fields |-> matching_fields,
                index |-> index]
    /\ got' = [call |-> "new", val |-> <<>>]
    /\ UNCHANGED <<poolVars, rankVars>>

\* item.get_text()
Call_get_text ==
    /\ got.call # "none"
    /\ got' = [call |-> "get_text", val |-> get_text(item)]
    /\ UNCHANGED <<item, args, poolVars, rankVars>>

\* item.get_text_struct()
Call_get_text_struct ==
    /\ got.call # "none"
    /\ got' = [call |-> "get_text_struct", val |-> get_text_struct(item)]
    /\ UNCHANGED <<item, args, poolVars, rankVars>>

\* item.get_output_text()
Call_get_output_text ==
    /\ got.call # "none"
    /\ got' = [call |-> "get_output_text", val |-> get_output_text(item)]
    /\ UNCHANGED <<item, args, poolVars, rankVars>>

\* item.get_matching_ranges()
Call_get_matching_ranges ==
    /\ got.call # "none"
    /\ got' = [call |-> "get_matching_ranges", val |-> get_matching_ranges(item)]
    /\ UNCHANGED <<item, args, poolVars, rankVars>>

\* item.get_full_index() and item.get_index()
Call_get_index ==
    /\ got.call # "none"
    /\ got' = [call |-> "get_index", val |-> <<get_full_index(item), get_index(item)>>]
    /\ UNCHANGED <<item, args, poolVars, rankVars>>

ItemNext ==
    \/ /\ got.call = "none"
       /\ \E orig_text \in Lines, ansi_enabled \in BOOLEAN,
             trans_fields \in FieldSpecs, matching_fields \in FieldSpecs,
             index \in Indices :
               Call_Item_new(orig_text, ansi_enabled, trans_fields, matching_fields, index)
    \/ Call_get_text
    \/ Call_get_text_struct
    \/ Call_get_output_text
    \/ Call_get_matching_ranges
    \/ Call_get_index

ItemSpec == Init /\ [][ItemNext]_vars

----------------------------------------------------------------------------
\* MatchedItem: two matched items are built, the first (of ItemA) and then
\* the second (of either item), each as
\* builder(item).rank(rank).matched_range(range).build() with the call of
\* matched_range optional, and then compared.

\* MatchedItem::builder(item)
Call_builder(s, it) ==
    /\ mpc[s] = "none"
    /\ s = "lhs" => it = ItemA
    /\ s = "rhs" => mpc["lhs"] = "built"
    /\ matched' = [matched EXCEPT ![s] = MatchedItem_builder(it)]
    /\ mpc' = [mpc EXCEPT ![s] = "builder"]
    /\ UNCHANGED <<cmp_r, poolVars, itemVars>>

\* .rank(rank)
Call_rank(s, rank) ==
    /\ mpc[s] = "builder"
    /\ matched' = [matched EXCEPT ![s] = MatchedItem_rank(@, rank)]
    /\ mpc' = [mpc EXCEPT ![s] = "ranked"]
    /\ UNCHANGED <<cmp_r, poolVars, itemVars>>

\* .matched_range(range)
Call_matched_range(s, range) ==
    /\ mpc[s] = "ranked"
    /\ matched' = [matched EXCEPT ![s] = MatchedItem_matched_range(@, range)]
    /\ mpc' = [mpc EXCEPT ![s] = "ranged"]
    /\ UNCHANGED <<cmp_r, poolVars, itemVars>>

\* .build()
Call_build(s) ==
    /\ mpc[s] \in {"ranked", "ranged"}
    /\ matched' = [matched EXCEPT ![s] = MatchedItem_build(@)]
    /\ mpc' = [mpc EXCEPT ![s] = "built"]
    /\ UNCHANGED <<cmp_r, poolVars, itemVars>>

\* lhs.cmp(&rhs), rhs.cmp(&lhs), lhs.partial_cmp(&rhs) and lhs == rhs
Call_cmp ==
    /\ \A s \in Sides : mpc[s] = "built"
    /\ cmp_r.call = "none"
    /\ cmp_r' = [call |-> "cmp",
                 val |-> [cmp |-> MatchedItem_cmp(matched.lhs, matched.rhs),
                          rev |-> MatchedItem_cmp(matched.rhs, matched.lhs),
                          partial_cmp |-> MatchedItem_partial_cmp(matched.lhs, matched.rhs),
                          eq |-> MatchedItem_eq(matched.lhs, matched.rhs)]]
    /\ UNCHANGED <<matched, mpc, poolVars, itemVars>>

RankNext ==
    \/ \E s \in Sides :
        \/ \E it \in SomeItems : Call_builder(s, it)
        \/ mpc[s] = "builder" /\ \E rank \in Ranks : Call_rank(s, rank)
        \/ Call_matched_range(s, RangeOf(matched[s].item))
        \/ Call_build(s)
    \/ Call_cmp

RankSpec == Init /\ [][RankNext]_vars

----------------------------------------------------------------------------
\* Properties

\* The elements a+1 .. b of s, counted from 1; empty when a >= b.
Segment(s, a, b) == SubSeq(s, a + 1, b)

\* The set of the elements of a sequence.
Range(s) == {s[k] : k \in 1..Len(s)}

\* A sequence without repeated elements.
NoRepeat(s) == \A i, j \in 1..Len(s) : s[i] = s[j] => i = j

\* No thread is inside a pool operation.
AllIdle == \A t \in Threads : pc[t] = "idle"

\* C1: with any number of producers and a single consumer, and no clear or
\* reset, whenever no operation holds the lock (so in particular whenever no
\* operation is in flight) the results of the completed take calls,
\* concatenated in call order, are exactly the storage prefix pool[0..taken):
\* no item is delivered twice and none below the cursor was skipped.
C1_ExactlyOnce ==
    (Cardinality(takers) <= 1 /\ ~ctl /\ owner = NoThread)
        => delivered = Segment(pool, 0, taken)

\* C1 witness: nothing is in flight, one consumer has taken two items in
\* calls of its own while a third item is stored and not yet taken.
C1_Witness ==
    /\ AllIdle
    /\ ~ctl
    /\ Cardinality(takers) = 1
    /\ Len(delivered) = 2
    /\ Len(pool) = 3
    /\ Cardinality(doneBatches \ {<<>>}) >= 2

\* C2: whenever no operation holds the lock the cursor is at most the stored
\* length; and inside take the subtraction len - taken and the slice
\* pool[taken..len] are in bounds, so take never panics.
C2_CursorInBounds ==
    /\ owner = NoThread => taken <= Len(pool)
    /\ \A t \in Threads :
        /\ pc[t] # "panicked"
        /\ pc[t] \in {"take_alloc", "take_loop", "take_ret"}
              => old_l[t] <= len_l[t] /\ len_l[t] <= Len(pool)

\* C2 witness: after a clear that followed a take of stored items, items
\* were appended and taken again; the lock is free.
C2_Witness ==
    /\ owner = NoThread
    /\ ctl
    /\ since = "take"
    /\ taken = Len(pool)
    /\ taken > 0
    /\ nextId > Len(pool)

\* C3: a take that has run its loop returns the items at positions
\* [old, len) of storage, in storage order, where len is the stored length
\* and old the cursor at the moment take acquired the lock; it holds
\* len - old items and the cursor equals len.
C3_TakeResult ==
    \A t \in Threads :
        pc[t] = "take_ret" =>
            /\ ret[t] = Segment(poolAtLock[t], takenAtLock[t], Len(poolAtLock[t]))
            /\ Len(ret[t]) = Len(poolAtLock[t]) - takenAtLock[t]
            /\ taken = Len(poolAtLock[t])
            /\ old_l[t] = takenAtLock[t]

\* C3 witness: a take about to return two items, with a cursor that was
\* already past the first stored item.
C3_Witness ==
    \E t \in Threads :
        /\ pc[t] = "take_ret"
        /\ takenAtLock[t] = 1
        /\ Len(ret[t]) = 2

\* C4: an append that has moved its batch has placed the whole batch at the
\* end of storage in the batch's order: the stored length grew by the batch
\* size, every earlier position is unchanged, the caller's vector is empty
\* and the cursor is what it was.
C4_AppendFrame ==
    \A t \in Threads :
        pc[t] = "append_ret" =>
            /\ pool = poolAtLock[t] \o batch[t]
            /\ Len(pool) = Len(poolAtLock[t]) + Len(batch[t])
            /\ Segment(pool, 0, Len(poolAtLock[t])) = poolAtLock[t]
            /\ items[t] = <<>>
            /\ taken = takenAtLock[t]

\* C4 witness: a batch of two items was appended to non-empty storage whose
\* first item had been taken.
C4_Witness ==
    \E t \in Threads :
        /\ pc[t] = "append_ret"
        /\ Len(batch[t]) = 2
        /\ Len(poolAtLock[t]) = 1
        /\ taken = 1

\* C5: a reset that has stored the cursor left storage as it was and the
\* cursor at zero; and the first take after a reset returns the full current
\* contents of the pool in storage order, the items taken before the reset
\* included.
C5_ResetReoffers ==
    \A t \in Threads :
        /\ pc[t] = "reset_ret" => pool = poolAtLock[t] /\ taken = 0
        /\ (pc[t] = "take_ret" /\ sinceAtLock[t] = "reset")
              => ret[t] = pool /\ Len(ret[t]) >= claimedAtLock[t]

\* C5 witness: the first take after a reset is about to return three stored
\* items, two of which lay below the cursor when reset ran.
C5_Witness ==
    \E t \in Threads :
        /\ pc[t] = "take_ret"
        /\ sinceAtLock[t] = "reset"
        /\ claimedAtLock[t] = 2
        /\ Len(ret[t]) = 3

\* C6: a clear that has run leaves len() = 0 and the cursor 0; a len() or
\* take() before any further append sees an empty pool, and the first take
\* after a clear returns exactly the items appended after the clear, from
\* position 0 onward.
C6_ClearEmpties ==
    \A t \in Threads :
        /\ pc[t] = "clear_ret" => Len(pool) = 0 /\ taken = 0
        /\ (pc[t] = "len_ret" /\ since = "clear" /\ arrived = <<>>)
              => len_l[t] = 0
        /\ (pc[t] = "take_ret" /\ sinceAtLock[t] = "clear")
              => /\ ret[t] = arrivedAtLock[t]
                 /\ ret[t] = pool
                 /\ takenAtLock[t] = 0

\* C6 witness: two or more items were handed to append, clear ran, and a
\* take made before any further append is about to return nothing.
C6_Witness ==
    \E t \in Threads :
        /\ pc[t] = "take_ret"
        /\ sinceAtLock[t] = "clear"
        /\ arrivedAtLock[t] = <<>>
        /\ ret[t] = <<>>
        /\ nextId >= 2

\* C7: a take that follows a take with no clear or reset in between returns
\* exactly the batches appended in between, in arrival order, and none of
\* the items below the old cursor; with no append in between it returns
\* nothing and leaves the cursor where it was.
C7_TakeAfterTake ==
    \A t \in Threads :
        (pc[t] = "take_ret" /\ sinceAtLock[t] = "take") =>
            /\ ret[t] = arrivedAtLock[t]
            /\ Range(ret[t]) \cap Range(Segment(pool, 0, takenAtLock[t])) = {}
            /\ arrivedAtLock[t] = <<>> => ret[t] = <<>> /\ taken = takenAtLock[t]

\* C7 witness: after a take of one item, two batches of one item each were
\* appended, and the next take is about to return those two.
C7_Witness ==
    \E t \in Threads :
        /\ pc[t] = "take_ret"
        /\ sinceAtLock[t] = "take"
        /\ takenAtLock[t] = 1
        /\ Len(ret[t]) = 2
        /\ {<<ret[t][1]>>, <<ret[t][2]>>} \subseteq doneBatches

\* C8: every operation holds the pool lock at each of its statements from
\* the first access to the return, so at most one thread is inside a pool
\* operation, and the cursor is written (the store of clear and reset, the
\* swap of take) only by the thread that holds the lock.
C8_MutualExclusion ==
    /\ \A t \in Threads : pc[t] \in InsidePcs => owner = t
    /\ Cardinality({t \in Threads : pc[t] \in InsidePcs}) <= 1
    /\ \A t \in Threads :
          pc[t] \in {"clear_store", "reset_store", "take_swap"} => owner = t

\* C8 witness: a thread is about to write the cursor while a producer, a
\* consumer and another thread wait for the lock.
C8_Witness ==
    /\ pc["ctl"] = "reset_store"
    /\ pc["p1"] = "append_lock"
    /\ pc["c1"] = "take_lock"
    /\ owner = "ctl"

\* The sum of the lengths of the sequences of a finite set.
RECURSIVE SumLen(_)
SumLen(S) ==
    IF S = {} THEN 0
    ELSE LET b == CHOOSE x \in S : TRUE IN Len(b) + SumLen(S \ {b})

\* C9: with producers appending concurrently, every batch lies in storage
\* as one contiguous block in its own order, storage is the concatenation of
\* the appended batches in some order, and a take by the single consumer
\* returns every appended item it has not returned before, once.
C9_BatchesContiguous ==
    /\ \A b \in doneBatches :
          \E k \in 0..Len(pool) :
              k + Len(b) <= Len(pool) /\ Segment(pool, k, k + Len(b)) = b
    /\ owner = NoThread => Len(pool) = SumLen(doneBatches) /\ NoRepeat(pool)
    /\ \A t \in Threads :
          (pc[t] = "take_ret" /\ ~ctl /\ Cardinality(takers) <= 1) =>
              /\ NoRepeat(ret[t])
              /\ Range(ret[t]) = Range(pool) \ Range(delivered)

\* C9 witness: two producers were in append at the same time and the batch
\* created second landed first; the consumer is about to return all of it.
C9_Witness ==
    \E t \in Threads :
        /\ pc[t] = "take_ret"
        /\ ~ctl
        /\ Cardinality(takers) = 1
        /\ ret[t] = <<3, 1, 2>>
        /\ doneBatches = {<<1, 2>>, <<3>>}

\* An item was returned by two take calls, or lies below the cursor and was
\* returned by none.
DupOrDrop ==
    \/ ~NoRepeat(delivered)
    \/ ~(Range(Segment(pool, 0, taken)) \subseteq Range(delivered))

\* The executions of two take callers and one producer, as a set of states.
\* A state is a record of the pool (pool, taken, owner), of each thread's
\* position and locals, of the results returned so far (delivered), and of
\* whether a take was called while the other caller's take was in flight
\* (overlap).
RaceThreads == Consumers \cup {"p1"}

\* The pool as it is now, and no thread of the execution in a call yet.
RaceInit ==
    [pool |-> pool, taken |-> taken, owner |-> owner,
     pc |-> [t \in RaceThreads |-> "idle"],
     items |-> <<>>, nextId |-> nextId,
     len_l |-> [t \in Consumers |-> 0],
     old_l |-> [t \in Consumers |-> 0],
     ret |-> [t \in Consumers |-> <<>>],
     delivered |-> delivered, overlap |-> FALSE]

\* The panic of take in state st: the guard is dropped, nothing is returned.
RacePanic(st, t) ==
    [st EXCEPT !.owner = NoThread, !.pc[t] = "panicked",
               !.len_l[t] = 0, !.old_l[t] = 0, !.ret[t] = <<>>]

\* The states thread t reaches from st by its next statement: none when t
\* spins on a lock another thread holds, or has no item left to append.
RaceStep(st, t) ==
    CASE st.pc[t] = "idle" /\ t \in Consumers ->
            {[st EXCEPT !.pc[t] = "take_lock",
                        !.overlap = @ \/ \E u \in Consumers \ {t} : st.pc[u] \in TakePcs]}
      [] st.pc[t] = "idle" /\ t \notin Consumers ->
            {[st EXCEPT !.items = Fresh(st.nextId, n), !.nextId = @ + n,
                        !.pc[t] = "append_lock"] :
                n \in {k \in 1..MaxBatch : st.nextId + k <= MaxItems}}
      \* let pool = self.pool.lock();
      [] st.pc[t] = "take_lock" ->
            IF st.owner = NoThread
              THEN {[st EXCEPT !.owner = t, !.pc[t] = "take_len"]}
              ELSE {}
      \* let len = pool.len();
      [] st.pc[t] = "take_len" ->
            {[st EXCEPT !.len_l[t] = Len(st.pool), !.pc[t] = "take_swap"]}
      \* let taken = self.taken.swap(len, AtomicOrdering::SeqCst);
      [] st.pc[t] = "take_swap" ->
            {[st EXCEPT !.old_l[t] = st.taken, !.taken = st.len_l[t],
                        !.pc[t] = "take_alloc"]}
      \* let mut ret = Vec::with_capacity(len-taken);  and &pool[taken..len]
      [] st.pc[t] = "take_alloc" ->
            IF st.old_l[t] > st.len_l[t] \/ st.len_l[t] > Len(st.pool)
              THEN {RacePanic(st, t)}
              ELSE {[st EXCEPT !.ret[t] = <<>>,
                               !.pc[t] = IF st.old_l[t] = st.len_l[t]
                                           THEN "take_ret" ELSE "take_loop"]}
      \* for item in &pool[taken..len] { ret.push(item.clone()) }
      [] st.pc[t] = "take_loop" ->
            IF st.old_l[t] + Len(st.ret[t]) + 1 > Len(st.pool)
              THEN {RacePanic(st, t)}
              ELSE {[st EXCEPT !.ret[t] = Append(@, st.pool[st.old_l[t] + Len(st.ret[t]) + 1]),
                               !.pc[t] = IF st.old_l[t] + Len(st.ret[t]) + 1 = st.len_l[t]
                                           THEN "take_ret" ELSE "take_loop"]}
      \* ret
      [] st.pc[t] = "take_ret" ->
            {[st EXCEPT !.owner = NoThread, !.delivered = @ \o st.ret[t],
                        !.len_l[t] = 0, !.old_l[t] = 0, !.ret[t] = <<>>,
                        !.pc[t] = "idle"]}
      \* let mut pool = self.pool.lock();
      [] st.pc[t] = "append_lock" ->
            IF st.owner = NoThread
              THEN {[st EXCEPT !.owner = t, !.pc[t] = "append_push"]}
              ELSE {}
      \* pool.append(items);
      [] st.pc[t] = "append_push" ->
            {[st EXCEPT !.pool = @ \o st.items, !.items = <<>>,
                        !.pc[t] = "append_ret"]}
      [] st.pc[t] = "append_ret" ->
            {[st EXCEPT !.owner = NoThread, !.pc[t] = "idle"]}
      [] OTHER -> {}

RECURSIVE RaceReach(_, _)
\* The states reachable from the states seen, of which the frontier are the
\* ones whose successors have not been taken yet.
RaceReach(seen, frontier) ==
    IF frontier = {} THEN seen
    ELSE LET next == UNION {RaceStep(st, t) : st \in frontier, t \in RaceThreads}
         IN RaceReach(seen \cup next, next \ seen)

\* In state st of such an execution an item was returned by two take
\* calls, or lies below the cursor and was returned by none.
RaceDupOrDrop(st) ==
    \/ ~NoRepeat(st.delivered)
    \/ /\ st.owner = NoThread
       /\ ~(Range(Segment(st.pool, 0, st.taken)) \subseteq Range(st.delivered))

\* C10 as claimed: from a new pool there is an execution with two
\* concurrent take callers (and a producer, no clear or reset) in which some
\* item is returned by two take calls, or lies below the cursor without
\* having been returned by any take call.
C10_ConcurrentTakeCorrupts ==
    (AllIdle /\ ~ctl /\ nextId = 0 /\ pool = <<>> /\ taken = 0 /\ delivered = <<>>)
        => \E st \in RaceReach({RaceInit}, {RaceInit}) :
              st.overlap /\ RaceDupOrDrop(st)

\* C10 amended: take calls made concurrently by any number of threads (no
\* clear or reset) cannot yield a duplicate or a dropped delivery: the lock
\* is held from the read of the length to the return, so no item is returned
\* twice, and whenever the lock is free every item below the cursor has been
\* returned.
C10_ConcurrentTakeSafe ==
    ~ctl => /\ NoRepeat(delivered)
            /\ owner = NoThread => ~DupOrDrop
            /\ \A t \in Threads : pc[t] = "take_ret" =>
                  Range(ret[t]) \cap Range(delivered) = {}

\* C10 witness: consumer c2 called take while c1's take was in flight; c1 has
\* returned items and c2, holding the lock, is about to return further ones.
C10_Witness ==
    /\ overlap
    /\ ~ctl
    /\ takers = Consumers
    /\ delivered # <<>>
    /\ \E t \in Consumers : pc[t] = "take_ret" /\ ret[t] # <<>>
    /\ \E t \in Consumers : pc[t] = "take_lock"

\* The statements at which a thread waits for the lock.
LockPcs == {"len_lock", "clear_lock", "reset_lock", "append_lock", "take_lock"}

\* C11 as claimed: under fair scheduling every operation that was called
\* acquires the lock, completes and returns; no reachable state is a
\* deadlock, and a thread that has returned does not hold the lock.
C11_NoBlocking ==
    /\ \A t \in Threads : (pc[t] # "idle") ~> (pc[t] = "idle")
    /\ [](\A t \in Threads : pc[t] \in {"idle", "panicked"} => owner # t)
    /\ [](ENABLED FairNext)

\* C11: under fair scheduling every operation that has acquired the lock
\* completes, releases it and returns, so the lock is free again and again;
\* while threads wait for a free lock one of them acquires it; no reachable
\* state is a deadlock, and a thread that has returned does not hold the
\* lock.  A particular waiting thread is not promised the lock.
C11_HoldersComplete ==
    /\ \A t \in Threads : (owner = t) ~> (pc[t] = "idle" /\ owner # t)
    /\ []<>(owner = NoThread)
    /\ ((owner = NoThread /\ \E t \in Threads : pc[t] \in LockPcs)
          ~> (owner # NoThread))
    /\ [](\A t \in Threads : pc[t] \in {"idle", "panicked"} => owner # t)
    /\ [](ENABLED FairNext)

\* C11 witness: every thread is inside a call; one holds the lock, in the
\* second iteration of take's loop, and the other four wait for it.
C11_Witness ==
    /\ owner = "c1"
    /\ pc["c1"] = "take_loop"
    /\ len_l["c1"] = 2
    /\ Len(ret["c1"]) = 1
    /\ \A t \in Threads \ {"c1"} : pc[t] \in {"append_lock", "take_lock", "clear_lock"}

\* Thread t executes the statement at label l in this step.
Runs(t, l) == pc[t] = l /\ pc'[t] # l

\* C12: the cursor never decreases in a step of append, take or len; the
\* only steps that lower it are the stores of reset and clear, and they set
\* it to exactly 0.
C12_CursorMonotonic ==
    [][/\ taken' < taken =>
            /\ taken' = 0
            /\ \E t \in Threads : Runs(t, "reset_store") \/ Runs(t, "clear_store")
       /\ \A t \in Threads :
            (pc[t] \in TakePcs \cup {"append_lock", "append_push", "append_ret",
                                     "len_lock", "len_read", "len_ret"}
             /\ pc'[t] # pc[t]) => taken' >= taken]_vars

\* C12 witness: the cursor had advanced to 1 and then to 3 in two takes, and
\* a reset has just set it back from 3 to 0.
C12_Witness ==
    /\ pc["ctl"] = "reset_ret"
    /\ takenAtLock["ctl"] = 3
    /\ taken = 0
    /\ Len(pool) = 3
    /\ Cardinality(doneBatches \ {<<>>}) = 2

\* The step empties the storage (clear).
ClearStep == \E t \in Threads : Runs(t, "clear_clear")

\* C20: storage is append-only between clears: the steps of take, len and
\* reset leave the stored sequence as it is, and in every step that is not
\* a clear the stored length does not decrease and every occupied position
\* keeps its item, so delivered items stay in the pool.
C20_AppendOnly ==
    [][/\ \A t \in Threads :
            (pc[t] \in TakePcs \cup {"len_lock", "len_read", "len_ret",
                                     "reset_lock", "reset_store", "reset_ret"}
             /\ pc'[t] # pc[t]) => pool' = pool
       /\ ~ClearStep =>
            /\ Len(pool') >= Len(pool)
            /\ Segment(pool', 0, Len(pool)) = pool]_vars

\* C20 witness: every stored item has been delivered, a batch is appended
\* behind them, and the delivered items are still in the pool.
C20_Witness ==
    \E t \in Threads :
        /\ pc[t] = "append_ret"
        /\ ~ctl
        /\ delivered = poolAtLock[t]
        /\ Len(delivered) = 2
        /\ Len(pool) = 3
        /\ Segment(pool, 0, 2) = delivered

----------------------------------------------------------------------------
\* C13 to C17: the texts and the matching ranges of an Item

\* The line has an escape sequence in it.
HasEsc(s) == \E k \in 1..Len(s) : s[k] = Esc

\* The arguments of Item::new asked for a transform.
Transformed == args.trans_fields # <<>>

\* What the transform selects from the original line.
TransformOfOrig == parse_transform_fields(args.orig_text, args.trans_fields)

\* C13: get_text() of the item Item::new built is the derivation the
\* transform/ANSI matrix selects: the original line when neither is active,
\* the stripped ANSI parse of the original line when only ANSI is, the
\* transform of the original line when only the transform is, and the
\* stripped ANSI parse of the transform when both are.
C13_TextMatrix ==
    got.call = "get_text" =>
        got.val = CASE ~Transformed /\ ~args.ansi_enabled -> args.orig_text
                    [] ~Transformed /\ args.ansi_enabled ->
                          get_stripped(parse_ansi(args.orig_text))
                    [] Transformed /\ ~args.ansi_enabled -> TransformOfOrig
                    [] Transformed /\ args.ansi_enabled ->
                          get_stripped(parse_ansi(TransformOfOrig))

\* C13 witness: transform and ANSI are both active on a line whose second
\* field holds an escape sequence; get_text() returned the second field
\* without it.
C13_Witness ==
    /\ got.call = "get_text"
    /\ args.orig_text = <<Delim, Esc, "a">>
    /\ args.trans_fields = <<2>>
    /\ args.ansi_enabled
    /\ got.val = <<"a">>

\* C14: get_output_text() ignores the transform.  An item built with
\* transform fields gives the output text of the item built from the same
\* line without them: the original line when ANSI is off, and the ANSI
\* parse of the whole original line, not of the transformed text, when
\* ANSI is on.
C14_OutputIgnoresTransform ==
    (got.call = "get_output_text" /\ Transformed) =>
        /\ got.val = get_output_text(Item_new(args.orig_text, args.ansi_enabled, <<>>,
                                              args.matching_fields, args.index))
        /\ ~args.ansi_enabled => got.val = args.orig_text
        /\ args.ansi_enabled => got.val = into_inner(parse_ansi(args.orig_text))

\* C14 witness: transform and ANSI are both active, the transform selects
\* the second field only, and the output is the whole line without its
\* escape sequence, which is not the text get_text() returns.
C14_Witness ==
    /\ got.call = "get_output_text"
    /\ args.orig_text = <<Delim, Esc, "a">>
    /\ args.trans_fields = <<2>>
    /\ args.ansi_enabled
    /\ got.val = <<Delim, "a">>
    /\ got.val # get_text(item)

\* C15 as claimed: with ANSI on and no transform, for a line that has
\* escape sequences in it the output text is the original styled line and
\* not the stripped text get_text() returns.
C15_OutputKeepsStyling ==
    (/\ got.call = "get_output_text"
     /\ args.ansi_enabled
     /\ ~Transformed
     /\ HasEsc(args.orig_text))
        => (got.val = args.orig_text /\ got.val # get_text(item))

\* C15: with ANSI on and no transform, get_text() is the original line
\* with its escape sequences removed, and get_output_text() is that same
\* stripped text: the escape sequences are not in the output.
C15_AnsiOnlyOutputStripped ==
    (args.ansi_enabled /\ ~Transformed) =>
        /\ got.call \in {"get_text", "get_output_text"} =>
              /\ ~HasEsc(got.val)
              /\ got.val = SelectSeq(args.orig_text, LAMBDA c : c # Esc)
        /\ got.call = "get_output_text" => got.val = get_text(item)

\* C15 witness: ANSI on, no transform, a line with two escape sequences
\* around one character; the output text is that character alone.
C15_Witness ==
    /\ got.call = "get_output_text"
    /\ args.ansi_enabled
    /\ ~Transformed
    /\ args.orig_text = <<Esc, "a", Esc>>
    /\ got.val = <<"a">>

\* C16: an item built without matching fields has exactly one matching
\* range, from 0 to the length of the text get_text() returns, whichever of
\* the four derivations made that text.
C16_DefaultRange ==
    (got.call = "get_matching_ranges" /\ args.matching_fields = <<>>) =>
        got.val = << <<0, Len(get_text(item))>> >>

\* C16 witness: no matching fields, transform and ANSI both active, and a
\* text shorter than the original line: the range is that of the text.
C16_Witness ==
    /\ got.call = "get_matching_ranges"
    /\ args.matching_fields = <<>>
    /\ args.orig_text = <<Delim, Esc, "a">>
    /\ args.trans_fields = <<2>>
    /\ args.ansi_enabled
    /\ got.val = << <<0, 1>> >>

\* Every range of the list lies inside a text of length n.
RangesWithin(ranges, n) ==
    \A k \in 1..Len(ranges) :
        0 <= ranges[k][1] /\ ranges[k][1] <= ranges[k][2] /\ ranges[k][2] <= n

\* C17 as claimed: the matching ranges of every item are non-empty and
\* every one of them lies inside the text get_text() returns.
C17_RangesNonEmptyInText ==
    got.call = "get_matching_ranges" =>
        /\ got.val # <<>>
        /\ RangesWithin(got.val, Len(get_text(item)))

\* C17: every matching range of an item lies inside the text get_text()
\* returns.  Without matching fields the list is not empty; with matching
\* fields it is what the field parser gives for the text get_text()
\* returns, one range at most for each field, and none for a field the
\* text does not have.
C17_RangesInText ==
    got.call = "get_matching_ranges" =>
        /\ RangesWithin(got.val, Len(get_text(item)))
        /\ args.matching_fields = <<>> => got.val # <<>>
        /\ args.matching_fields # <<>> =>
              /\ got.val = parse_matching_fields(get_text(item), args.matching_fields)
              /\ Len(got.val) <= Len(args.matching_fields)

\* C17 witness: ANSI on, the first field asked for, and a line that starts
\* with an escape sequence: the range ends where the stripped text's first
\* field ends, before the end of the original line's.
C17_Witness ==
    /\ got.call = "get_matching_ranges"
    /\ args.ansi_enabled
    /\ ~Transformed
    /\ args.orig_text = <<Esc, "a", Delim>>
    /\ args.matching_fields = <<1>>
    /\ got.val = << <<0, 2>> >>

----------------------------------------------------------------------------
\* C18, C19: MatchedItem ordering and equality

\* The first slot in which two ranks differ, or 0 when they are the same.
FirstDiff(r, s) ==
    IF \A k \in 1..4 : r[k] = s[k] THEN 0
    ELSE CHOOSE k \in 1..4 : r[k] # s[k] /\ \A j \in 1..(k - 1) : r[j] = s[j]

\* r is below s in the lexicographic order of the slots.
LexLess(r, s) == FirstDiff(r, s) # 0 /\ r[FirstDiff(r, s)] < s[FirstDiff(r, s)]

Compared == cmp_r.call = "cmp"

\* C18: comparing two MatchedItems is the lexicographic comparison of
\* their ranks: the first slot that differs decides, Less when the left
\* value is the smaller and Greater when it is the larger, Equal when no
\* slot differs.  The order is strict and total: nothing is Less than a
\* rank equal to it, two different ranks are Less one way and Greater the
\* other, and Less is transitive through every third rank.
C18_LexicographicOrder ==
    Compared =>
        LET a == matched.lhs.rank
            b == matched.rhs.rank
        IN /\ cmp_r.val.cmp = (IF LexLess(a, b) THEN Less
                                ELSE IF LexLess(b, a) THEN Greater ELSE Equal)
           /\ cmp_r.val.partial_cmp = Some(cmp_r.val.cmp)
           /\ a = b => (cmp_r.val.cmp = Equal /\ cmp_r.val.rev = Equal)
           /\ a # b => ((cmp_r.val.cmp = Less /\ cmp_r.val.rev = Greater)
                        \/ (cmp_r.val.cmp = Greater /\ cmp_r.val.rev = Less))
           /\ cmp_r.val.cmp = Less =>
                 \A c \in Ranks :
                     MatchedItem_cmp(matched.rhs, MatchedItem_rank(matched.rhs, c)) = Less
                        => MatchedItem_cmp(matched.lhs, MatchedItem_rank(matched.rhs, c)) = Less

\* C18 witness: the score is the larger on the left and every other slot
\* the larger on the right, one of them negative; the left compared Greater.
C18_Witness ==
    /\ Compared
    /\ matched.lhs.rank = <<1, 0 - 1, 0, 0>>
    /\ matched.rhs.rank = <<0, 1, 1, 1>>
    /\ cmp_r.val.cmp = Greater

\* C19: ordering and equality of MatchedItems look at the rank alone.  Two
\* MatchedItems whose ranks are equal compare Equal and are ==, whatever
\* items they refer to and whatever matched ranges they carry; two whose
\* ranks differ are not == and do not compare Equal; so a == b holds
\* exactly when cmp(a, b) is Equal.
C19_RankOnly ==
    Compared =>
        /\ matched.lhs.rank = matched.rhs.rank
              => (cmp_r.val.cmp = Equal /\ cmp_r.val.eq = TRUE)
        /\ matched.lhs.rank # matched.rhs.rank
              => (cmp_r.val.cmp # Equal /\ cmp_r.val.eq = FALSE)
        /\ cmp_r.val.eq <=> (cmp_r.val.cmp = Equal)

\* C19 witness: the same rank on both sides, different items, a byte range
\* on the left and no matched range on the right; they compared Equal and ==.
C19_Witness ==
    /\ Compared
    /\ matched.lhs.rank = <<1, 0, 0 - 1, 1>>
    /\ matched.rhs.rank = matched.lhs.rank
    /\ matched.lhs.item # matched.rhs.item
    /\ matched.lhs.matched_range = Some(ByteRange(0, 1))
    /\ matched.rhs.matched_range = None
    /\ cmp_r.val.cmp = Equal
    /\ cmp_r.val.eq

====
